---- MODULE Spec2Model ----
(***************************************************************************)
(* A model of msmart's cloud client (msmart/cloud.py, class Cloud) and of  *)
(* the C3 heat pump device (msmart/device/C3/device.py, class HeatPump).   *)
(*                                                                         *)
(* The cloud client runs on asyncio: callers are tasks of one cooperative  *)
(* scheduler, a task runs without interruption from one suspension point   *)
(* to the next.  The suspension points of cloud.py are the wait for the    *)
(* instance lock (async with self._api_lock) and the HTTP POST (await      *)
(* client.post).  Every action below is one such uninterrupted run.        *)
(***************************************************************************)
EXTENDS Integers, Sequences, FiniteSets, TLC

(* ------------------------------ bounds -------------------------------- *)
\* Number of concurrently running caller tasks.
NumTasks == 2
\* Number of cloud calls (login / get_token) issued in one run.
MaxCalls == 3
\* Longest token list the cloud answers with.
MaxTokenList == 2

Tasks == 1 .. NumTasks

(* ------------------------ constants of cloud.py ----------------------- *)
RETRIES == 3
BASE_URL == "https://mp-prod.appsmb.com"
BASE_URL_CHINA == "https://mp-prod.smartmidea.net"

\* Python's None where the other values are strings.
None == "None"
\* The empty dict {} that __init__ stores in _session.
EmptyDict == << >>

(* ----------------------- values the cloud sends ----------------------- *)
LoginIds == {"L1"}
AccessTokens == {"T1", "T2"}
\* The udpids of the entries of a token list, and the udpids asked for.
Udpids == {"u1", "u2"}
AskedUdpids == {"u1"}
DeviceTokens == {"tokA", "tokB"}

\* Non-zero envelope codes with their messages.
ServerErrors == {[code |-> 3101, msg |-> "bad password"],
                 [code |-> 3004, msg |-> "value is illegal"]}

RECURSIVE SeqsUpTo(_, _)
SeqsUpTo(S, n) ==
    IF n = 0 THEN {<< >>}
    ELSE LET shorter == SeqsUpTo(S, n - 1)
         IN  shorter \cup {Append(s, e) : s \in {x \in shorter : Len(x) = n - 1}, e \in S}

\* Two entries for one udpid (with different tokens), one for the other.
TokenEntries ==
    {e \in {[udpId |-> u, token |-> k, key |-> "key of " \o k] : u \in Udpids, k \in DeviceTokens} :
        e.udpId \in AskedUdpids \/ e.token = "tokA"}
TokenLists == SeqsUpTo(TokenEntries, MaxTokenList)

\* The "data" member the cloud sends with code 0, per endpoint alias.  The
\* cloud is taken to follow its API: a code 0 envelope carries the payload
\* of the endpoint (cloud.py asserts as much: "we should throw on errors").
ResponseData(alias) ==
    CASE alias = "/v1/user/login/id/get" ->
            {[loginId |-> l] : l \in LoginIds}
      [] alias = "/mj/user/login" ->
            {[mdata |-> [accessToken |-> a]] : a \in AccessTokens}
      [] alias = "/v1/iot/secure/getToken" ->
            {[tokenlist |-> l] : l \in TokenLists}
      [] OTHER -> {}

\* What one "await client.post(...)" followed by raise_for_status() can end
\* in: a timeout (httpx.TimeoutException), another transport or HTTP status
\* error, or a response envelope {"code", "msg", "data"}.
Outcomes(alias) ==
    {[kind |-> "timeout"], [kind |-> "error"]}
    \cup {[kind |-> "response", code |-> 0, msg |-> "ok", data |-> d] : d \in ResponseData(alias)}
    \cup {[kind |-> "response", code |-> e.code, msg |-> e.msg, data |-> EmptyDict] : e \in ServerErrors}

(* ------------------------------- state -------------------------------- *)
VARIABLES
    environ,            \* USE_CHINA_SERVER in os.environ: "unset", "0" or "1"
    ctor,               \* the arguments Cloud(...) was constructed with
    base_url,           \* Cloud._base_url
    login_id,           \* Cloud._login_id
    session,            \* Cloud._session
    access_token,       \* Cloud._access_token
    login_done,         \* history: some login() has returned after an exchange
    api_lock,           \* Cloud._api_lock: [locked, waiters]
    nonce_ctr,          \* number of values drawn from token_hex for "random"
    calls,              \* number of cloud calls issued so far
    task,               \* per caller task: the call in progress
    ended,              \* the call that ended in the latest step, if one did
    dev,                \* the HeatPump object: attribute name -> value
    dev_ret,            \* how the latest operation on the device ended
    decoded_ever        \* history: some reply of some send has decoded

ctor_vars == <<environ, ctor, base_url>>
cloud_vars == <<environ, ctor, base_url, login_id, session, access_token, login_done,
                api_lock, nonce_ctr, calls, task, ended>>
dev_vars == <<dev, dev_ret, decoded_ever>>
vars == <<cloud_vars, dev_vars>>

NoCall == [op |-> "none", force |-> FALSE, udpid |-> None]
NoReq == [url |-> [base |-> None, alias |-> None], contents |-> << >>,
          headers |-> [sign |-> << >>, random |-> 0, accessToken |-> ""]]
NoExc == [type |-> "none", code |-> 0, message |-> ""]
NoOutcome == [kind |-> "none"]
\* A caller task between two calls.  attempts, timeouts and seen are
\* history: the POSTs of the current _post_request, how many of them timed
\* out, and how the latest finished POST of the call ended.
IdleTask == [pc |-> "idle", call |-> NoCall, req |-> NoReq, retries |-> 0,
             attempts |-> 0, timeouts |-> 0, seen |-> NoOutcome]
NoEnded == [task |-> 0, status |-> "none", exc |-> NoExc, value |-> << >>,
            call |-> NoCall, req |-> NoReq, attempts |-> 0, timeouts |-> 0,
            last |-> NoOutcome]

(* -------------------------- HeatPump.__init__ -------------------------- *)
\* Python's None in an attribute that otherwise holds a number.
NoneInt == 0 - 1

\* HeatPump.Zone.__init__
ZoneInit ==
    [power_state |-> FALSE, curve_state |-> FALSE,
     temperature_type |-> NoneInt, terminal_type |-> NoneInt,
     target_temperature |-> 25,
     min_heat_temperature |-> 25, max_heat_temperature |-> 55,
     min_cool_temperature |-> 5, max_cool_temperature |-> 25]

\* What Device.__init__ (msmart/base_device.py) sets of the flags the heat
\* pump updates: a new device is neither online nor supported.
BaseDeviceInit == [online |-> FALSE, supported |-> FALSE]

\* The attributes of a new HeatPump, by name (without the leading "_").
HeatPumpInit ==
    BaseDeviceInit @@
    [run_mode |-> NoneInt, heat_enable |-> FALSE, cool_enable |-> FALSE,
     zone2_enable |-> FALSE,
     zone_1 |-> ZoneInit, zone_2 |-> ZoneInit,
     dhw_enable |-> FALSE, dhw_power_state |-> FALSE,
     dhw_target_temperature |-> 25, dhw_min_temperature |-> 20,
     dhw_max_temperature |-> 60,
     room_thermostat_enable |-> FALSE, room_termostate_power_state |-> FALSE,
     room_target_temperature |-> 25, room_min_temperature |-> 17,
     room_max_temperature |-> 30,
     tbh_state |-> FALSE, fastdhw_state |-> FALSE,
     tank_temperature |-> NoneInt]

NoDevRet == [op |-> "none", exc |-> "none", value |-> << >>,
             replies |-> [none |-> TRUE, replies |-> << >>]]

(* --------------------------- Cloud.__init__ --------------------------- *)
\* os.getenv("USE_CHINA_SERVER", "0")
Getenv(env) == IF env = "unset" THEN "0" ELSE env

\* Lines 56-59: the base URL __init__ stores.
CloudInit(env, use_china_server) ==
    LET china == IF Getenv(env) = "1" THEN TRUE ELSE use_china_server
    IN  IF china THEN BASE_URL_CHINA ELSE BASE_URL

\* A caller either passes use_china_server explicitly or leaves the default.
CtorArgs == {[explicit |-> TRUE, use_china_server |-> b] : b \in BOOLEAN}
            \cup {[explicit |-> FALSE, use_china_server |-> FALSE]}

\* The state after Cloud(account, password, use_china_server) and
\* HeatPump(ip, device_id, port), given the environment and the arguments.
Constructed(env, args) ==
    /\ environ = env
    /\ ctor = args
    /\ base_url = CloudInit(env, args.use_china_server)
    /\ login_id = None
    /\ session = EmptyDict
    /\ access_token = ""
    /\ login_done = FALSE
    /\ api_lock = [locked |-> FALSE, waiters |-> << >>]
    /\ nonce_ctr = 0
    /\ calls = 0
    /\ task = [t \in Tasks |-> IdleTask]
    /\ ended = NoEnded
    /\ dev = HeatPumpInit
    /\ dev_ret = NoDevRet
    /\ decoded_ever = FALSE

\* A client constructed with the defaults and USE_CHINA_SERVER unset.
Init == Constructed("unset", [explicit |-> FALSE, use_china_server |-> FALSE])

\* A client constructed with any arguments in any environment.
InitAny == \E env \in {"unset", "0", "1"}, args \in CtorArgs : Constructed(env, args)

(* ------------------- asyncio.Lock as cloud.py uses it ------------------ *)
\* Mutant of LockFree: the holder of the lock is not looked at.
LockFree_ignores_holder(l) == l.waiters = << >>

\* Lock.acquire() takes the lock at once when it is free and nobody waits
\* for it; otherwise the caller queues behind the waiters (FIFO).
LockFree(l) == ~l.locked /\ l.waiters = << >>

Lock_acquire(l, t) ==
    IF LockFree(l) THEN [l EXCEPT !.locked = TRUE]
    ELSE [l EXCEPT !.waiters = Append(@, t)]

\* Lock.release() at the end of "async with self._api_lock": the first
\* waiter is woken and takes the lock when it runs next.
Lock_release(l) == [l EXCEPT !.locked = FALSE]

(* --------------------------- signed envelope --------------------------- *)
\* security.new_sign(contents, random): a digest of the two, kept symbolic.
new_sign(contents, random) == <<contents, random>>

\* _build_request_body: the fixed fields plus the call's own data.
build_request_body(data) == [appId |-> "1010", src |-> "1010", data |-> data]

\* Mutant of Envelope: the accessToken header is left empty.
Envelope_without_token(alias, body, random) ==
    [url |-> [base |-> base_url, alias |-> alias],
     contents |-> body,
     headers |-> [sign |-> new_sign(body, random),
                  random |-> random,
                  accessToken |-> ""]]

\* The url, headers and contents _api_request computes (lines 102-117).
Envelope(alias, body, random) ==
    [url |-> [base |-> base_url, alias |-> alias],
     contents |-> body,
     headers |-> [sign |-> new_sign(body, random),
                  random |-> random,
                  accessToken |-> access_token]]

\* Mutant of token_hex: the value drawn before is returned again.
token_hex_repeats(drawn) == drawn

\* "random = token_hex(16)" (line 104): the random source is taken never to
\* return a value twice; its values are numbered, drawn counts those drawn.
token_hex(drawn) == drawn + 1

\* _post_request entered: retries = RETRIES and the first client.post().
PostStart(c) ==
    [c EXCEPT !.pc = "posting", !.retries = RETRIES, !.attempts = 1,
              !.timeouts = 0]

\* _api_request(endpoint, body) run by task t whose record is c, with the
\* lock in state l: the envelope is built first, then the lock is requested;
\* with the lock free the POST goes out in the same run.
api_request(t, c, l, alias, body) ==
    LET random == token_hex(nonce_ctr)
        c1 == [c EXCEPT !.req = Envelope(alias, body, random)]
    IN  /\ nonce_ctr' = random
        /\ api_lock' = Lock_acquire(l, t)
        /\ task' = [task EXCEPT ![t] =
                        IF LockFree(l) THEN PostStart(c1)
                        ELSE [c1 EXCEPT !.pc = "wait_lock", !.retries = 0,
                                        !.attempts = 0, !.timeouts = 0]]
        /\ ended' = NoEnded

\* The call of task t (record c) ends: by returning value v or raising e.
Finish(t, c, status, e, v, last) ==
    /\ task' = [task EXCEPT ![t] = IdleTask]
    /\ ended' = [task |-> t, status |-> status, exc |-> e, value |-> v,
                 call |-> c.call, req |-> c.req, attempts |-> c.attempts,
                 timeouts |-> c.timeouts, last |-> last]

(* ----------------------------- Cloud.login ----------------------------- *)
login_body(lid) == [loginAccount |-> "account", iampwd |-> <<lid, "password">>]

\* The part of login() after the login id is known (lines 168-188).
login_exchange(t, c, l, lid) ==
    api_request(t, c, l, "/mj/user/login", login_body(lid))

\* Mutant of login_skipped: force is not looked at.
login_skipped_ignores_force(force) == session # EmptyDict

\* "if self._session and not force: return" (lines 160-161).
login_skipped(force) == session # EmptyDict /\ ~force

login(t, force) ==
    /\ task[t].pc = "idle"
    /\ calls < MaxCalls
    /\ calls' = calls + 1
    /\ LET c == [task[t] EXCEPT !.call = [op |-> "login", force |-> force, udpid |-> None]]
       IN  IF login_skipped(force)
           THEN /\ Finish(t, c, "returned", NoExc, << >>, NoOutcome)
                /\ UNCHANGED <<login_id, session, access_token, login_done, api_lock, nonce_ctr>>
           ELSE IF login_id = None
           THEN /\ api_request(t, c, api_lock, "/v1/user/login/id/get",
                               build_request_body([loginAccount |-> "account"]))
                /\ UNCHANGED <<login_id, session, access_token, login_done>>
           ELSE /\ login_exchange(t, c, api_lock, login_id)
                /\ UNCHANGED <<login_id, session, access_token, login_done>>
    /\ UNCHANGED <<ctor_vars, dev_vars>>

(* --------------------------- Cloud.get_token --------------------------- *)
get_token(t, udpid) ==
    /\ task[t].pc = "idle"
    /\ calls < MaxCalls
    /\ calls' = calls + 1
    /\ LET c == [task[t] EXCEPT !.call = [op |-> "get_token", force |-> FALSE, udpid |-> udpid]]
       IN  api_request(t, c, api_lock, "/v1/iot/secure/getToken",
                       build_request_body([udpid |-> udpid]))
    /\ UNCHANGED <<ctor_vars, dev_vars, login_id, session, access_token, login_done>>

\* Mutant of scan_tokenlist: the first entry is taken whatever its udpId.
scan_tokenlist_first_entry(tokenlist, udpid) ==
    IF tokenlist = << >> THEN <<None, None>>
    ELSE <<Head(tokenlist).token, Head(tokenlist).key>>

\* The loop of get_token over response["tokenlist"] (lines 208-213).
RECURSIVE scan_tokenlist(_, _)
scan_tokenlist(tokenlist, udpid) ==
    IF tokenlist = << >> THEN <<None, None>>
    ELSE IF Head(tokenlist).udpId = udpid
         THEN <<Head(tokenlist).token, Head(tokenlist).key>>
         ELSE scan_tokenlist(Tail(tokenlist), udpid)

(* ------------------- the lock is granted to a waiter ------------------- *)
\* The first waiter resumes inside "async with self._api_lock" and enters
\* _post_request (lines 120-121, 82-86).
lock_granted(t) ==
    /\ task[t].pc = "wait_lock"
    /\ ~api_lock.locked
    /\ api_lock.waiters # << >>
    /\ Head(api_lock.waiters) = t
    /\ api_lock' = [locked |-> TRUE, waiters |-> Tail(api_lock.waiters)]
    /\ task' = [task EXCEPT ![t] = PostStart(task[t])]
    /\ ended' = NoEnded
    /\ UNCHANGED <<ctor_vars, dev_vars, login_id, session, access_token, login_done, nonce_ctr, calls>>

(* ------------------- Cloud._post_request, one attempt ------------------ *)
\* Mutant of ApiError: raised without the code (code=None by default).
ApiError_without_code(message, code) == [type |-> "ApiError", code |-> 0, message |-> message]

ApiError(message, code) == [type |-> "ApiError", code |-> code, message |-> message]
TimeoutException == [type |-> "TimeoutException", code |-> 0, message |-> ""]
TransportError == [type |-> "TransportError", code |-> 0, message |-> ""]

\* _parse_response: the data of a code 0 envelope, ApiError otherwise.
parse_response(body) ==
    IF body.code = 0
    THEN [raised |-> FALSE, data |-> body.data, exc |-> NoExc]
    ELSE [raised |-> TRUE, data |-> EmptyDict, exc |-> ApiError(body.msg, body.code)]

\* Mutant of retries_expired: gives up one attempt early.
retries_expired_one_early(retries) == retries <= 1

\* "if retries == 0: raise e" after "retries -= 1" (lines 93-97).
retries_expired(retries) == retries = 0

\* Mutant of raise_from_post: the failure also drops the session.
raise_from_post_drops_session(t, c, e, o) ==
    /\ api_lock' = Lock_release(api_lock)
    /\ Finish(t, c, "raised", e, << >>, o)
    /\ session' = EmptyDict
    /\ access_token' = ""
    /\ UNCHANGED <<login_id, login_done, nonce_ctr>>

\* An exception leaves _post_request and _api_request: the lock is released
\* on the way out and the call of task t ends with it.
raise_from_post(t, c, e, o) ==
    /\ api_lock' = Lock_release(api_lock)
    /\ Finish(t, c, "raised", e, << >>, o)
    /\ UNCHANGED <<login_id, session, access_token, login_done, nonce_ctr>>

\* _api_request returned data to its caller, which runs on to its next
\* suspension point or to its end.
api_returned(t, c, data, o) ==
    LET alias == c.req.url.alias
        released == Lock_release(api_lock)
    IN  CASE alias = "/v1/user/login/id/get" ->
                \* _get_login_id returns response["loginId"]; login() stores
                \* it and goes on to the credential exchange.
                /\ login_id' = data.loginId
                /\ login_exchange(t, [c EXCEPT !.seen = o], released, data.loginId)
                /\ UNCHANGED <<session, access_token, login_done>>
          [] alias = "/mj/user/login" ->
                /\ session' = data
                /\ access_token' = data.mdata.accessToken
                /\ login_done' = TRUE
                /\ api_lock' = released
                /\ Finish(t, c, "returned", NoExc, << >>, o)
                /\ UNCHANGED <<login_id, nonce_ctr>>
          [] alias = "/v1/iot/secure/getToken" ->
                /\ api_lock' = released
                /\ Finish(t, c, "returned", NoExc,
                          scan_tokenlist(data.tokenlist, c.call.udpid), o)
                /\ UNCHANGED <<login_id, session, access_token, login_done, nonce_ctr>>

\* Mutant of retry_request: the accessToken header is read again from the
\* client for the retry.
retry_request_rereads_token(c) ==
    [c.req EXCEPT !.headers.accessToken = access_token]

\* What the next turn of "while retries > 0" posts (line 86): the url,
\* headers and contents that _post_request was called with.
retry_request(c) == c.req

\* Mutant of caught_for_retry: every failure of the attempt is caught.
caught_for_retry_any_failure(o) == o.kind \in {"timeout", "error"}

\* "except httpx.TimeoutException as e" (line 91): the one exception of an
\* attempt that _post_request catches.
caught_for_retry(o) == o.kind = "timeout"

\* The POST that task t awaits ends in outcome o.
post_response(t, o) ==
    /\ task[t].pc = "posting"
    /\ o \in Outcomes(task[t].req.url.alias)
    /\ CASE caught_for_retry(o) ->
              LET c == [task[t] EXCEPT !.retries = @ - 1, !.timeouts = @ + 1,
                                       !.seen = o]
              IN  IF retries_expired(c.retries)
                  THEN raise_from_post(t, c, TimeoutException, o)
                  ELSE \* next turn of "while retries > 0": POST again
                       /\ task' = [task EXCEPT ![t] = [c EXCEPT !.attempts = @ + 1,
                                                                !.req = retry_request(c)]]
                       /\ ended' = NoEnded
                       /\ UNCHANGED <<login_id, session, access_token, login_done, api_lock,
                                      nonce_ctr>>
         [] o.kind = "error" /\ ~caught_for_retry(o) ->
              raise_from_post(t, task[t], TransportError, o)
         [] o.kind = "response" ->
              LET r == parse_response(o)
              IN  IF r.raised
                  THEN raise_from_post(t, task[t], r.exc, o)
                  ELSE api_returned(t, task[t], r.data, o)
    /\ UNCHANGED <<ctor_vars, dev_vars, calls>>

(* ------------------------- a call is cancelled ------------------------ *)
CancelledError == [type |-> "CancelledError", code |-> 0, message |-> ""]

\* Mutant of cancel_exit: the lock is left as the cancelled call had it.
cancel_exit_keeps_lock(l, t, pc) == l

\* What CancelledError does to the lock on its way out of _api_request.
\* Raised in Lock.acquire() (line 120) the waiter is taken off the queue;
\* raised in client.post() (line 86) it is no TimeoutException, leaves
\* _post_request and "async with self._api_lock" releases the lock.
cancel_exit(l, t, pc) ==
    IF pc = "wait_lock"
    THEN [l EXCEPT !.waiters = SelectSeq(@, LAMBDA w : w # t)]
    ELSE Lock_release(l)

\* The caller's task t is cancelled at the suspension point it is at.
cancel(t) ==
    /\ task[t].pc \in {"wait_lock", "posting"}
    /\ api_lock' = cancel_exit(api_lock, t, task[t].pc)
    /\ Finish(t, task[t], "raised", CancelledError, << >>, [kind |-> "cancelled"])
    /\ UNCHANGED <<ctor_vars, dev_vars, login_id, session, access_token, login_done,
                   nonce_ctr, calls>>

(* ------------------------ replies of a heat pump ----------------------- *)
\* Most reply datagrams one send collects.
MaxReplies == 2

\* QueryType.QUERY_BASIC and QueryType.QUERY_ECO (C3/command.py).
QUERY_BASIC == 1
QUERY_ECO == 7

\* A decoded basic-state response: its attributes by name.  m is the run
\* mode, b the value of the flags, tt the temperature type of both zones.
BasicResponse(m, b, tt) ==
    [type |-> QUERY_BASIC,
     run_mode |-> m, heat_enable |-> b, cool_enable |-> b, zone2_enable |-> b,
     zone1_power_state |-> b, zone1_curve_state |-> b, zone1_temp_type |-> tt,
     zone1_terminal_type |-> 1, zone1_target_temperature |-> 31,
     zone1_heat_min_temperature |-> 26, zone1_heat_max_temperature |-> 56,
     zone1_cool_min_temperature |-> 6, zone1_cool_max_temperature |-> 24,
     zone2_power_state |-> b, zone2_curve_state |-> b, zone2_temp_type |-> tt,
     zone2_terminal_type |-> 2, zone2_target_temperature |-> 32,
     zone2_heat_min_temperature |-> 27, zone2_heat_max_temperature |-> 57,
     zone2_cool_min_temperature |-> 7, zone2_cool_max_temperature |-> 23,
     dhw_enable |-> b, dhw_power_state |-> b, dhw_target_temperature |-> 45,
     dhw_min_temperature |-> 21, dhw_max_temperature |-> 61,
     room_thermostat_enable |-> b, room_thermostat_power_state |-> b,
     room_target_temperature |-> 22, room_min_temperature |-> 16,
     room_max_temperature |-> 31,
     tbh_state |-> b, fastdhw_state |-> b, tank_temperature |-> 48]

\* A response of another query type: _process_state_response ignores it.
EcoResponse == [type |-> QUERY_ECO]

Responses ==
    {BasicResponse(3, TRUE, 1), BasicResponse(2, FALSE, 0),
     BasicResponse(0, TRUE, 1), EcoResponse}

\* A reply datagram: its frame is valid and decodes to a response, or it is
\* not and Response.construct raises InvalidFrameException.
BadDatagram == [frame_ok |-> FALSE, response |-> EcoResponse]
Datagrams == {BadDatagram} \cup {[frame_ok |-> TRUE, response |-> r] : r \in Responses}

\* What Device._send_command (msmart/base_device.py) hands back: None when
\* no reply came, else the replies in the order they arrived.
SendCommandResults ==
    {[none |-> TRUE, replies |-> << >>]}
    \cup {[none |-> FALSE, replies |-> l] : l \in SeqsUpTo(Datagrams, MaxReplies) \ {<< >>}}

\* Response.construct(data)
Response_construct(data) ==
    IF data.frame_ok THEN [raised |-> FALSE, response |-> data.response]
    ELSE [raised |-> TRUE, response |-> EcoResponse]

(* ---------------- HeatPump._send_command_get_responses ----------------- *)
\* The loop over the replies (lines 158-170): s is the device, valid the
\* list valid_responses so far.
RECURSIVE construct_loop(_, _, _)

\* Mutant of construct_loop: the first reply that fails to decode ends the
\* loop.
construct_loop_aborts(datas, s, valid) ==
    IF datas = << >> THEN [state |-> s, value |-> valid]
    ELSE LET r == Response_construct(Head(datas))
         IN  IF r.raised
             THEN [state |-> s, value |-> valid]
             ELSE construct_loop(Tail(datas), [s EXCEPT !.supported = TRUE],
                                 Append(valid, r.response))

construct_loop(datas, s, valid) ==
    IF datas = << >> THEN [state |-> s, value |-> valid]
    ELSE LET r == Response_construct(Head(datas))
         IN  IF r.raised
             THEN construct_loop(Tail(datas), s, valid)
             ELSE construct_loop(Tail(datas), [s EXCEPT !.supported = TRUE],
                                 Append(valid, r.response))

\* Some reply of what the transport handed back decodes.
some_reply_decodes(responses) ==
    /\ ~responses.none
    /\ \E i \in 1 .. Len(responses.replies) : ~Response_construct(responses.replies[i]).raised

\* Mutant of no_response: the device is not marked offline.
no_response_keeps_online(s) == [state |-> s, value |-> << >>]

\* "if responses is None: self._online = False; return []" (lines 151-153).
no_response(s) == [state |-> [s EXCEPT !.online = FALSE], value |-> << >>]

\* Mutant of send_command_get_responses: any reply marks the device
\* supported.
send_command_get_responses_any_reply(s, responses) ==
    IF responses.none THEN no_response(s)
    ELSE construct_loop(responses.replies,
                        [s EXCEPT !.online = TRUE, !.supported = TRUE], << >>)

send_command_get_responses(s, responses) ==
    IF responses.none THEN no_response(s)
    ELSE construct_loop(responses.replies, [s EXCEPT !.online = TRUE], << >>)

\* A caller sends a command and takes the list of responses.
send_command(responses) ==
    /\ LET r == send_command_get_responses(dev, responses)
       IN  /\ dev' = r.state
           /\ dev_ret' = [op |-> "send", exc |-> "none", value |-> r.value,
                          replies |-> responses]
    /\ decoded_ever' = (decoded_ever \/ some_reply_decodes(responses))
    /\ UNCHANGED cloud_vars

(* ------------------------ HeatPump._update_state ----------------------- *)
\* HeatPump.RunMode(v) and HeatPump.TemperatureType(v) raise ValueError for
\* a value that is no member of the enumeration.
RunModeValues == {1, 2, 3, 5}
TemperatureTypeValues == {0, 1}
Converts(conv, v) ==
    CASE conv = "RunMode" -> v \in RunModeValues
      [] conv = "TemperatureType" -> v \in TemperatureTypeValues
      [] OTHER -> TRUE

\* One assignment of _update_state: the attribute of the device (zone 0) or
\* of zone 1 or 2 that is set, the attribute of the response that is read,
\* and the enumeration the value is converted to.
Stmt(zone, attr, src, conv) == [zone |-> zone, attr |-> attr, src |-> src, conv |-> conv]

\* The body of "for i, zone in enumerate([self._zone_1, self._zone_2], 1)".
\* The temperature type is read with getattr(res, f"zone{i}_temp_type)").
ZoneStmts(i) ==
    LET z == "zone" \o ToString(i)
    IN  << Stmt(i, "power_state", z \o "_power_state", "none"),
           Stmt(i, "curve_state", z \o "_curve_state", "none"),
           Stmt(i, "temperature_type", z \o "_temp_type)", "TemperatureType"),
           Stmt(i, "terminal_type", z \o "_terminal_type", "none"),
           Stmt(i, "target_temperature", z \o "_target_temperature", "none"),
           Stmt(i, "min_heat_temperature", z \o "_heat_min_temperature", "none"),
           Stmt(i, "max_heat_temperature", z \o "_heat_max_temperature", "none"),
           Stmt(i, "min_cool_temperature", z \o "_cool_min_temperature", "none"),
           Stmt(i, "max_cool_temperature", z \o "_cool_max_temperature", "none") >>

\* The assignments of _update_state in program order (lines 89-134).
UpdateStmts ==
    << Stmt(0, "run_mode", "run_mode", "RunMode"),
       Stmt(0, "heat_enable", "heat_enable", "none"),
       Stmt(0, "cool_enable", "cool_enable", "none"),
       Stmt(0, "zone2_enable", "zone2_enable", "none") >>
    \o ZoneStmts(1) \o ZoneStmts(2) \o
    << Stmt(0, "dhw_enable", "dhw_enable", "none"),
       Stmt(0, "dhw_power_state", "dhw_power_state", "none"),
       Stmt(0, "dhw_target_temperature", "dhw_target_temperature", "none"),
       Stmt(0, "dhw_min_temperature", "dhw_min_temperature", "none"),
       Stmt(0, "dhw_max_temperature", "dhw_max_temperature", "none"),
       Stmt(0, "room_thermostat_enable", "room_thermostat_enable", "none"),
       Stmt(0, "room_thermostat_power_state", "room_thermostat_power_state", "none"),
       Stmt(0, "room_thermostat_target_temperature", "room_target_temperature", "none"),
       Stmt(0, "room_thermostat_min_temperature", "room_min_temperature", "none"),
       Stmt(0, "room_thermostat_max_temperature", "room_max_temperature", "none"),
       Stmt(0, "tbh_state", "tbh_state", "none"),
       Stmt(0, "fastdhw_state", "fastdhw_state", "none"),
       Stmt(0, "tank_temperature", "tank_temperature", "none") >>

\* Python's attribute assignment: the attribute is created when missing.
SetAttr(s, attr, v) == [k \in DOMAIN s \cup {attr} |-> IF k = attr THEN v ELSE s[k]]

Assign(s, st, v) ==
    CASE st.zone = 0 -> SetAttr(s, st.attr, v)
      [] st.zone = 1 -> [s EXCEPT !.zone_1 = SetAttr(@, st.attr, v)]
      [] st.zone = 2 -> [s EXCEPT !.zone_2 = SetAttr(@, st.attr, v)]

\* The statements run one after the other on device s; the first read of
\* an attribute the response lacks (AttributeError) or conversion that
\* fails (ValueError) ends the run with what was assigned so far.
RECURSIVE run_statements(_, _, _)
run_statements(stmts, s, res) ==
    IF stmts = << >> THEN [state |-> s, exc |-> "none"]
    ELSE LET st == Head(stmts)
         IN  IF st.src \notin DOMAIN res
             THEN [state |-> s, exc |-> "AttributeError"]
             ELSE IF ~Converts(st.conv, res[st.src])
             THEN [state |-> s, exc |-> "ValueError"]
             ELSE run_statements(Tail(stmts), Assign(s, st, res[st.src]), res)

update_state(s, res) == run_statements(UpdateStmts, s, res)

\* HeatPump._process_state_response
process_state_response(s, response) ==
    IF response.type = QUERY_BASIC THEN update_state(s, response)
    ELSE [state |-> s, exc |-> "none"]

(* --------------------------- HeatPump.refresh -------------------------- *)
\* "for response in ...: self._process_state_response(response)"; an
\* exception of one response leaves refresh().
RECURSIVE process_loop(_, _)
process_loop(responses, s) ==
    IF responses = << >> THEN [state |-> s, exc |-> "none"]
    ELSE LET r == process_state_response(s, Head(responses))
         IN  IF r.exc # "none" THEN r
             ELSE process_loop(Tail(responses), r.state)

refresh(responses) ==
    /\ LET sent == send_command_get_responses(dev, responses)
           r == process_loop(sent.value, sent.state)
       IN  /\ dev' = r.state
           /\ dev_ret' = [op |-> "refresh", exc |-> r.exc, value |-> sent.value,
                          replies |-> responses]
    /\ decoded_ever' = (decoded_ever \/ some_reply_decodes(responses))
    /\ UNCHANGED cloud_vars

(* ---------------------------- specification ---------------------------- *)
Next ==
    \/ \E t \in Tasks, force \in BOOLEAN : login(t, force)
    \/ \E t \in Tasks, udpid \in AskedUdpids : get_token(t, udpid)
    \/ \E t \in Tasks : lock_granted(t)
    \/ \E t \in Tasks : \E o \in Outcomes(task[t].req.url.alias) : post_response(t, o)

Spec == Init /\ [][Next]_vars

\* The same client, constructed in any way.
SpecAny == InitAny /\ [][Next]_vars

\* Number of cloud calls issued in one run with cancellation.
MaxCancelCalls == 2

\* One payload per endpoint: which payload a call gets does not matter to
\* the lock.
PlainData(alias) ==
    CASE alias = "/v1/user/login/id/get" -> [loginId |-> "L1"]
      [] alias = "/mj/user/login" -> [mdata |-> [accessToken |-> "T1"]]
      [] alias = "/v1/iot/secure/getToken" -> [tokenlist |-> << >>]
      [] OTHER -> EmptyDict

\* A timeout, another transport error, a refusal, or the plain payload.
PlainOutcomes(alias) ==
    {o \in Outcomes(alias) :
        \/ o.kind # "response"
        \/ o.kind = "response" /\ o.code = 3101
        \/ o.kind = "response" /\ o.code = 0 /\ o.data = PlainData(alias)}

\* A waiter that the lock was handed to runs, or an HTTP attempt ends.
Progress ==
    \/ \E t \in Tasks : lock_granted(t)
    \/ \E t \in Tasks : \E o \in PlainOutcomes(task[t].req.url.alias) : post_response(t, o)

\* The client with callers that may cancel their calls at any suspension
\* point.
NextCancel ==
    \/ \E t \in Tasks, force \in BOOLEAN : calls < MaxCancelCalls /\ login(t, force)
    \/ \E t \in Tasks, udpid \in AskedUdpids : calls < MaxCancelCalls /\ get_token(t, udpid)
    \/ Progress
    \/ \E t \in Tasks : cancel(t)

\* The event loop runs every task that is ready, and every HTTP attempt
\* ends (in a response, an error or a timeout).
Fairness == WF_vars(Progress)

SpecCancel == Init /\ [][NextCancel]_vars /\ Fairness

\* The heat pump on its own: sends and refreshes with any replies.
NextDev ==
    \/ \E responses \in SendCommandResults : send_command(responses)
    \/ \E responses \in SendCommandResults : refresh(responses)

SpecDev == Init /\ [][NextDev]_vars

(* ================================ claims =============================== *)
Posting(t) == task[t].pc = "posting"
Waiting(t) == task[t].pc = "wait_lock"
Ok(o) == o.kind = "response" /\ o.code = 0
Refused(o) == o.kind = "response" /\ o.code # 0

\* C1: retry bound.  A call that raises the timeout made exactly RETRIES
\* POST attempts and every one of them timed out; a call whose last attempt
\* timed out ends that way only at the RETRIES-th attempt; a call whose
\* attempt k+1 succeeds after k < RETRIES timeouts made exactly k+1
\* attempts and returns, without raising, what that attempt delivered.
C1_RetryBound ==
    /\ \A t \in Tasks : Posting(t) =>
            /\ task[t].attempts = task[t].timeouts + 1
            /\ task[t].attempts <= RETRIES
    /\ ended.exc = TimeoutException =>
            /\ ended.status = "raised"
            /\ ended.attempts = RETRIES
            /\ ended.timeouts = RETRIES
    /\ (ended.status # "none" /\ ended.last.kind = "timeout") =>
            ended.exc = TimeoutException
    /\ (ended.status # "none" /\ Ok(ended.last)) =>
            /\ ended.status = "returned"
            /\ ended.exc = NoExc
            /\ ended.timeouts < RETRIES
            /\ ended.attempts = ended.timeouts + 1
            /\ ended.req.url.alias = "/mj/user/login" => session = ended.last.data

\* C1 witness: a call that timed out RETRIES times has raised.
C1_Witness ==
    /\ ended.status = "raised"
    /\ ended.exc = TimeoutException
    /\ ended.attempts = RETRIES

\* C2: a response with a non-zero code is never retried.  Whatever the
\* endpoint, the call ends at that attempt by raising ApiError with the
\* code and msg of the response, and no call that is still running has
\* seen a non-zero code.
C2_ApiErrorNotRetried ==
    /\ \A t \in Tasks : task[t].pc # "idle" => ~Refused(task[t].seen)
    /\ (ended.status # "none" /\ Refused(ended.last)) =>
            /\ ended.status = "raised"
            /\ ended.exc = [type |-> "ApiError", code |-> ended.last.code,
                            message |-> ended.last.msg]
    /\ ended.exc.type = "ApiError" =>
            /\ Refused(ended.last)
            /\ ended.exc.code = ended.last.code

\* C2 witness: a login was refused (bad credentials) on its first attempt
\* and raised ApiError.
C2_Witness ==
    /\ ended.call.op = "login"
    /\ ended.req.url.alias = "/mj/user/login"
    /\ ended.exc.type = "ApiError"
    /\ ended.attempts = 1

\* C3: the cloud calls of one instance are serialized.  At most one call is
\* between its first POST and the end of its last.
C3_CallsSerialized ==
    Cardinality({t \in Tasks : Posting(t)}) <= 1

\* C3 witness: one call is posting while another, issued concurrently,
\* waits for the lock.
C3_Witness ==
    \E t, u \in Tasks : Posting(t) /\ Waiting(u) /\ task[t].timeouts > 0

\* C4 as claimed: the lock is taken before the nonce and the signature are
\* computed, so a call that has its signed envelope holds the lock (it is
\* posting, not waiting).
C4_EnvelopeBuiltUnderLock ==
    \A t \in Tasks : task[t].req # NoReq => Posting(t)

\* C5 as claimed: a POST of a get_token call that is in flight carries the
\* access token the client holds, never one a finished login has replaced.
C5_NoStaleToken ==
    \A t \in Tasks :
        (Posting(t) /\ task[t].call.op = "get_token") =>
            task[t].req.headers.accessToken = access_token

\* The call that a step of task t has just started, if it started one.
Started(t) ==
    /\ task[t].pc = "idle"
    /\ calls' = calls + 1
    /\ task'[t].pc # "idle" \/ ended'.task = t
StartedCall(t) == IF task'[t].pc = "idle" THEN ended'.call ELSE task'[t].call

\* C6 (step part): once a login has succeeded, a login(force=False) builds
\* no request, posts nothing, changes neither the session nor the access
\* token nor the login id, and returns.
C6_LoginSkipped ==
    \A t \in Tasks :
        (/\ Started(t)
         /\ login_done
         /\ StartedCall(t).op = "login"
         /\ ~StartedCall(t).force) =>
            /\ UNCHANGED <<session, access_token, login_id, nonce_ctr, api_lock>>
            /\ task'[t].pc = "idle"
            /\ ended'.status = "returned"
            /\ ended'.attempts = 0

\* C6 (state part): a login(force=True) never ends without a POST; once a
\* login has succeeded it ends in the credential exchange; and when it
\* returns it has made that exchange and the session and the access token
\* are those of its response.
C6_ForcedLoginExchanges ==
    (ended.call.op = "login" /\ ended.call.force) =>
        /\ ended.attempts >= 1
        /\ login_done => ended.req.url.alias = "/mj/user/login"
        /\ ended.status = "returned" =>
              /\ ended.req.url.alias = "/mj/user/login"
              /\ Ok(ended.last)
              /\ session = ended.last.data
              /\ access_token = ended.last.data.mdata.accessToken

\* C6: login idempotence: login() after a successful login does no I/O,
\* login(force=True) does the exchange again.
C6_LoginIdempotence ==
    /\ [][C6_LoginSkipped]_vars
    /\ [](C6_ForcedLoginExchanges)

\* C6 witness: after a successful login a second login(force=False) has
\* returned without a POST.
C6_Witness ==
    /\ login_done
    /\ ended.call.op = "login"
    /\ ~ended.call.force
    /\ ended.status = "returned"
    /\ ended.attempts = 0

\* C7 (state part): a login that returns leaves a non-empty session, and
\* the access token is the accessToken of its response; a non-empty session
\* always goes with the access token that came with it.
C7_SessionTokenPaired ==
    /\ (ended.call.op = "login" /\ ended.status = "returned") =>
            /\ session # EmptyDict
            /\ ended.attempts > 0 =>
                  /\ session = ended.last.data
                  /\ access_token = ended.last.data.mdata.accessToken
    /\ session # EmptyDict => access_token = session.mdata.accessToken
    /\ session = EmptyDict <=> ~login_done

\* C7 (step part): a request that is built carries the access token the
\* client holds at that moment in its accessToken header.
C7_RequestCarriesToken ==
    nonce_ctr' # nonce_ctr =>
        \E t \in Tasks :
            /\ task'[t].req.headers.random = nonce_ctr'
            /\ task'[t].req.headers.accessToken = access_token'
            /\ login_done' => task'[t].req.headers.accessToken = session'.mdata.accessToken

\* C7: session and access token stay consistent and the token is attached
\* to the requests built after the login.
C7_SessionTokenConsistency ==
    /\ [](C7_SessionTokenPaired)
    /\ [][C7_RequestCarriesToken]_vars

\* C7 witness: after a login a get_token request is in flight with the
\* token of the session.
C7_Witness ==
    /\ login_done
    /\ \E t \in Tasks :
          /\ Posting(t)
          /\ task[t].call.op = "get_token"
          /\ task[t].req.headers.accessToken = session.mdata.accessToken

C9_OfflineDetection ==
    [][(dev_ret'.op = "send" /\ dev_ret'.replies.none) =>
            /\ dev_ret'.value = << >>
            /\ dev_ret'.exc = "none"
            /\ dev'.online = FALSE
            /\ dev' = [dev EXCEPT !.online = FALSE]]_vars

\* C9 witness: a device that was online and supported got no reply and is
\* now offline.
C9_Witness ==
    /\ dev_ret.op = "send"
    /\ dev_ret.replies.none
    /\ dev.supported
    /\ ~dev.online
    /\ dev.run_mode # NoneInt

\* The requests the client holds or has just finished with.
HeldReqs == {task[t].req : t \in Tasks} \ {NoReq}

\* C11 (state part): the requests of calls in progress carry pairwise
\* distinct nonces that were drawn from the random source, and the sign
\* header of every request, also of the one that just ended, is computed
\* over exactly the contents and the nonce this request sends.
C11_NoncesDistinct ==
    /\ \A t, u \in Tasks :
          (t # u /\ task[t].req # NoReq /\ task[u].req # NoReq) =>
              task[t].req.headers.random # task[u].req.headers.random
    /\ \A r \in HeldReqs \cup ({ended.req} \ {NoReq}) :
          /\ r.headers.random \in 1 .. nonce_ctr
          /\ r.headers.sign = new_sign(r.contents, r.headers.random)

\* C11 (step part): every request that is built draws a nonce, and that
\* nonce differs from the nonce of every request built before it.
C11_FreshNonce ==
    \A t \in Tasks :
        (task'[t].req # task[t].req /\ task'[t].req # NoReq) =>
            /\ nonce_ctr' # nonce_ctr
            /\ task'[t].req.headers.random = nonce_ctr'
            /\ \A k \in 1 .. nonce_ctr : task'[t].req.headers.random # k

\* C11: nonce uniqueness.
C11_NonceUniqueness ==
    /\ [](C11_NoncesDistinct)
    /\ [][C11_FreshNonce]_vars

\* C11 witness: the third request of the client is in flight while another
\* request, built earlier or later, waits for the lock.
C11_Witness ==
    \E t, u \in Tasks :
        /\ Posting(t) /\ Waiting(u)
        /\ task[t].req.headers.random = 3
        /\ task[u].req.headers.random # 3

\* The replies of a list that decode, and their responses in that order.
DecodingReplies(replies) == SelectSeq(replies, LAMBDA d : d.frame_ok)
DecodedResponses(replies) ==
    [i \in 1 .. Len(DecodingReplies(replies)) |-> DecodingReplies(replies)[i].response]

\* C12: per-reply isolation.  Whatever replies a send collects, the list it
\* returns holds exactly the responses of the replies that decode, in the
\* order the replies arrived, and the send does not raise: a reply that
\* fails to decode is skipped and the replies after it are still processed.
C12_PerReplyIsolation ==
    (dev_ret.op # "none" /\ ~dev_ret.replies.none) =>
        /\ dev_ret.value = DecodedResponses(dev_ret.replies.replies)
        /\ dev_ret.op = "send" => dev_ret.exc = "none"

\* C12 witness: the first reply of a send failed to decode and the second,
\* a basic-state response, was returned.
C12_Witness ==
    /\ dev_ret.op = "send"
    /\ ~dev_ret.replies.none
    /\ Len(dev_ret.replies.replies) = 2
    /\ ~dev_ret.replies.replies[1].frame_ok
    /\ dev_ret.replies.replies[2].frame_ok
    /\ dev_ret.value = <<dev_ret.replies.replies[2].response>>
    /\ dev_ret.exc = "none"

\* C13 (state part): online is true iff the latest send got at least one
\* reply, decodable or not, and supported is true iff some reply of some
\* send so far has decoded.
C13_FlagsFollowSends ==
    /\ dev_ret.op = "none" => (~dev.online /\ ~dev.supported)
    /\ dev_ret.op # "none" =>
          (dev.online <=> (~dev_ret.replies.none /\ Len(dev_ret.replies.replies) >= 1))
    /\ dev.supported <=> decoded_ever

\* C13 (step part): a send of which no reply decodes leaves supported as
\* it was.
C13_NoDecodeKeepsSupported ==
    (dev_ret' # dev_ret /\ DecodingReplies(dev_ret'.replies.replies) = << >>) =>
        dev'.supported = dev.supported

\* C13: the online and supported flags after any sequence of sends.
C13_OnlineSupported ==
    /\ [](C13_FlagsFollowSends)
    /\ [][C13_NoDecodeKeepsSupported]_vars

\* C13 witness: a device that was never supported got replies of which
\* none decoded: it is online and not supported.
C13_Witness ==
    /\ dev_ret.op = "send"
    /\ ~dev_ret.replies.none
    /\ DecodingReplies(dev_ret.replies.replies) = << >>
    /\ dev.online
    /\ ~dev.supported

\* C14 as claimed: a send that got replies of which none decodes leaves the
\* device online and not supported, whatever an earlier send had made of
\* supported.
C14_UndecodableDowngrades ==
    (/\ dev_ret.op # "none"
     /\ ~dev_ret.replies.none
     /\ DecodingReplies(dev_ret.replies.replies) = << >>) =>
        (dev.online /\ ~dev.supported)

\* A basic-state response whose run mode and temperature types are members
\* of their enumerations.
InRange(r) ==
    /\ r.type = QUERY_BASIC
    /\ r.run_mode \in RunModeValues
    /\ r.zone1_temp_type \in TemperatureTypeValues
    /\ r.zone2_temp_type \in TemperatureTypeValues

\* The zone attributes of __init__ hold the values of zone i of response r.
ZoneHolds(z, r, i) ==
    LET n == "zone" \o ToString(i)
    IN  /\ z.power_state = r[n \o "_power_state"]
        /\ z.curve_state = r[n \o "_curve_state"]
        /\ z.temperature_type = r[n \o "_temp_type"]
        /\ z.terminal_type = r[n \o "_terminal_type"]
        /\ z.target_temperature = r[n \o "_target_temperature"]
        /\ z.min_heat_temperature = r[n \o "_heat_min_temperature"]
        /\ z.max_heat_temperature = r[n \o "_heat_max_temperature"]
        /\ z.min_cool_temperature = r[n \o "_cool_min_temperature"]
        /\ z.max_cool_temperature = r[n \o "_cool_max_temperature"]

\* The attributes __init__ creates hold the values of response r.
DeviceHolds(s, r) ==
    /\ s.run_mode = r.run_mode
    /\ s.heat_enable = r.heat_enable
    /\ s.cool_enable = r.cool_enable
    /\ s.zone2_enable = r.zone2_enable
    /\ ZoneHolds(s.zone_1, r, 1)
    /\ ZoneHolds(s.zone_2, r, 2)
    /\ s.dhw_enable = r.dhw_enable
    /\ s.dhw_power_state = r.dhw_power_state
    /\ s.dhw_target_temperature = r.dhw_target_temperature
    /\ s.dhw_min_temperature = r.dhw_min_temperature
    /\ s.dhw_max_temperature = r.dhw_max_temperature
    /\ s.room_thermostat_enable = r.room_thermostat_enable
    /\ s.room_termostate_power_state = r.room_thermostat_power_state
    /\ s.room_target_temperature = r.room_target_temperature
    /\ s.room_min_temperature = r.room_min_temperature
    /\ s.room_max_temperature = r.room_max_temperature
    /\ s.tbh_state = r.tbh_state
    /\ s.fastdhw_state = r.fastdhw_state
    /\ s.tank_temperature = r.tank_temperature

\* C15 as claimed: a refresh whose send yields one decoded basic-state
\* response with in-range values returns normally, and every attribute the
\* device has from its construction holds the value of the response.
C15_RefreshCopiesFields ==
    (/\ dev_ret.op = "refresh"
     /\ Len(dev_ret.value) = 1
     /\ InRange(dev_ret.value[1])) =>
        /\ dev_ret.exc = "none"
        /\ DeviceHolds(dev, dev_ret.value[1])

\* The state attributes of device s: all but the online and supported flags.
StateFields(s) == [k \in DOMAIN s \ {"online", "supported"} |-> s[k]]

\* C16 as claimed: applying a response is all-or-nothing.  A refresh in
\* which applying a response fails leaves every state attribute of the
\* device and of both zones as it was before the refresh; a refresh that
\* applies its one basic-state response leaves every attribute holding the
\* value of that response.
C16_AllOrNothing ==
    [][/\ (dev_ret'.op = "refresh" /\ dev_ret'.exc # "none") =>
              StateFields(dev') = StateFields(dev)
       /\ (/\ dev_ret'.op = "refresh"
           /\ dev_ret'.exc = "none"
           /\ Len(dev_ret'.value) = 1
           /\ dev_ret'.value[1].type = QUERY_BASIC) =>
              DeviceHolds(dev', dev_ret'.value[1])]_vars

\* C17: retries happen on timeout only.  An attempt that fails in another
\* way (connection failure, bad HTTP status) is the last attempt of its
\* call: the call ends at once by raising that error, whatever the endpoint
\* and however many timeouts came before, and no call that is still running
\* has had such a failure.
C17_OnlyTimeoutRetried ==
    /\ \A t \in Tasks : task[t].pc # "idle" => task[t].seen.kind # "error"
    /\ (ended.status # "none" /\ ended.last.kind = "error") =>
            /\ ended.status = "raised"
            /\ ended.exc = TransportError
            /\ ended.attempts = ended.timeouts + 1
    /\ ended.exc = TransportError => ended.last.kind = "error"
    /\ \A t \in Tasks : task[t].attempts > 1 =>
            (task[t].seen.kind = "timeout" /\ task[t].timeouts = task[t].attempts - 1)

\* C17 witness: a login whose first attempt could not reach the server has
\* raised after that attempt.
C17_Witness ==
    /\ ended.call.op = "login"
    /\ ended.status = "raised"
    /\ ended.exc = TransportError
    /\ ended.attempts = 1
    /\ ended.timeouts = 0

\* C18 (state part): the lock is held exactly while some call is posting,
\* the queue of the lock holds exactly the calls that wait for it, and a
\* call that has just ended, however it ended, neither holds the lock nor
\* is queued for it.
C18_LockFollowsCalls ==
    /\ api_lock.locked <=> (\E t \in Tasks : Posting(t))
    /\ \A t \in Tasks :
          Waiting(t) <=> (\E i \in 1 .. Len(api_lock.waiters) : api_lock.waiters[i] = t)
    /\ ended.status # "none" =>
          /\ task[ended.task].pc = "idle"
          /\ \A i \in 1 .. Len(api_lock.waiters) : api_lock.waiters[i] # ended.task
          /\ api_lock.locked => (\E u \in Tasks \ {ended.task} : Posting(u))

\* C18 (step part): a call leaves the wait for the lock only by getting
\* the lock or by being cancelled.
C18_WaitEnds ==
    \A t \in Tasks :
        (Waiting(t) /\ task'[t].pc # "wait_lock") =>
            \/ task'[t].pc = "posting" /\ api_lock'.locked
            \/ ended'.task = t /\ ended'.exc = CancelledError

\* C18 (progress part): whenever calls are in progress, waiting for the
\* lock or posting, all of them end.
C18_CallsEnd ==
    (\E t \in Tasks : task[t].pc # "idle") ~> (\A t \in Tasks : task[t].pc = "idle")

\* C18: the lock is released on every exit and no call is blocked forever.
C18_LockReleased ==
    /\ [](C18_LockFollowsCalls)
    /\ [][C18_WaitEnds]_vars
    /\ C18_CallsEnd

\* C18 witness: a call was cancelled during its POST while another call
\* waits for the lock, which is free again.
C18_Witness ==
    /\ ended.exc = CancelledError
    /\ ended.attempts >= 1
    /\ ~api_lock.locked
    /\ \E u \in Tasks : Waiting(u)

\* C19 as claimed: a credential exchange is built only with a resolved login
\* id, and once a login-id request has succeeded (the login id is stored)
\* no request to /v1/user/login/id/get is in flight.
C19_LoginIdRequestedOnce ==
    /\ \A t \in Tasks :
          task[t].req.url.alias = "/mj/user/login" =>
              /\ login_id # None
              /\ task[t].req.contents.iampwd[1] \in LoginIds
    /\ login_id # None =>
          \A t \in Tasks :
              ~(Posting(t) /\ task[t].req.url.alias = "/v1/user/login/id/get")

\* The step ends a login call of some task by raising.
LoginRaises == ended'.call.op = "login" /\ ended'.status = "raised"

\* C20 (step part): the step in which a login raises (ApiError, exhausted
\* timeouts, another transport error; at the login-id request or at the
\* credential exchange) changes neither the session nor the access token
\* nor the login id; the session and the access token change only in the
\* step in which a login returns from a successful exchange, to the values
\* of its response; and a stored login id is never dropped.
C20_FailureKeepsSession ==
    /\ LoginRaises => UNCHANGED <<session, access_token, login_id>>
    /\ (session' # session \/ access_token' # access_token) =>
          /\ ended'.call.op = "login"
          /\ ended'.status = "returned"
          /\ Ok(ended'.last)
          /\ session' = ended'.last.data
          /\ access_token' = ended'.last.data.mdata.accessToken
    /\ login_id # None => login_id' # None

\* C20: a failed login leaves the session as it was.
C20_FailedLoginFrame == [][C20_FailureKeepsSession]_vars

\* C20 witness: after a successful login a forced login has raised, and
\* the session of the earlier login is still there with its token.
C20_Witness ==
    /\ ended.call.op = "login"
    /\ ended.call.force
    /\ ended.status = "raised"
    /\ ended.exc.type \in {"ApiError", "TimeoutException", "TransportError"}
    /\ login_done
    /\ session # EmptyDict
    /\ access_token = session.mdata.accessToken
    /\ login_id # None

\* The step starts a POST attempt of the request task t already has: the
\* first attempt after the wait for the lock, or a retry after a timeout.
AttemptOfBuiltRequest(t) ==
    \/ Waiting(t) /\ task'[t].pc = "posting"
    \/ /\ Posting(t)
       /\ task'[t].pc = "posting"
       /\ task'[t].attempts = task[t].attempts + 1

\* C21 (step part): every POST attempt of a call sends the url, contents
\* and headers (random, sign, accessToken) that were built before its first
\* attempt; no step builds a request without drawing a nonce.
C21_AttemptReusesEnvelope ==
    \A t \in Tasks :
        /\ AttemptOfBuiltRequest(t) =>
              /\ task'[t].req = task[t].req
              /\ nonce_ctr' = nonce_ctr
        /\ (task'[t].req # task[t].req /\ task'[t].req # NoReq) =>
              (nonce_ctr' = nonce_ctr + 1 /\ task'[t].attempts <= 1)

\* C21 (state part): a request that is being retried is the envelope as it
\* was signed: its sign is over its own contents and nonce, and it was
\* built before the nonces drawn after it.
C21_RetriedEnvelopeIntact ==
    \A t \in Tasks :
        (Posting(t) /\ task[t].attempts >= 2) =>
            /\ task[t].req.headers.sign =
                    new_sign(task[t].req.contents, task[t].req.headers.random)
            /\ task[t].req.headers.random \in 1 .. nonce_ctr
            /\ task[t].req.url.base = base_url

\* C21: retransmission reuses the signed envelope.
C21_RetransmissionReusesEnvelope ==
    /\ [][C21_AttemptReusesEnvelope]_vars
    /\ [](C21_RetriedEnvelopeIntact)

\* C21 witness: a call is at its second attempt or later with the access
\* token its envelope was built with, while the client holds another one.
C21_Witness ==
    \E t \in Tasks :
        /\ Posting(t)
        /\ task[t].attempts >= 2
        /\ task[t].timeouts >= 1
        /\ task[t].req.headers.accessToken # access_token

\* C10 as claimed: whatever USE_CHINA_SERVER is, an explicit
\* use_china_server argument decides the base URL.
C10_ExplicitChoiceWins ==
    ctor.explicit =>
        base_url = (IF ctor.use_china_server THEN BASE_URL_CHINA ELSE BASE_URL)

====
